---- MODULE Spec2Model ----
(***************************************************************************)
(* A model of raganwald/JQuery-Combinators:                                *)
(*   - life/life.js: Conway's Game of Life played on the classes of the    *)
(*     cells of an HTML table (specification Spec);                        *)
(*   - jquery.combinators.js: the plugin methods T/into, K/tap, ergo,      *)
(*     when and select (specification SpecComb);                           *)
(*   - the "standard implementation" of Life, the companion of life.js,    *)
(*     run side by side with life.js (specification SpecPair);             *)
(*   - the fluent refactoring of Life built on resetCount, hasNeighbours,  *)
(*     willBeBorn and willDie (specification SpecFluent);                  *)
(*   - life.js with events that arrive while class transitions are still   *)
(*     pending (specification SpecHasty);                                  *)
(*   - life.js with clicks outside the cells (specification SpecEdge);     *)
(*   - the earlier version of the plugin, K/tap and T/into only            *)
(*     (specification SpecOld).                                            *)
(***************************************************************************)
EXTENDS Integers, Sequences, FiniteSets, TLC

(***************************************************************************)
(* Bounds.  life.js sets SIZE = 16 (line 78); the table is modelled with   *)
(* a smaller side so that every grid can be enumerated.                    *)
(***************************************************************************)
SIZE == 3

\* the number of elements of the document the combinators are tried on
NElem == 2

\* the largest number of extra arguments of a combinator call
MaxExtras == 2

\* the deepest stack of previous selections a receiver may have
MaxStack == 1

VARIABLES
    cls,      \* life.js: the class attribute of every td, a set of class names
    fxq,      \* life.js: every td's queue of animated class changes (jQuery UI fx queue)
    pc,       \* life.js: position of the keyup handler inside stepForwardOneGeneration
    key,      \* life.js: keyCode of the last keyup event (0: none since the last click)
    gen,      \* history: the cells that were alive when the running/last step began
    stepped,  \* history: the last UI event handled was a Return keyup
    jqfn,     \* jquery.combinators.js: jQuery.fn, the method a name is bound to
    engine,   \* the selector engine of the jQuery the page loads
    cur,      \* the value the fluent expression under evaluation has reached
    last,     \* history: the last combinator call, its invocations and its result
    cls2,     \* the companion page (part_001): the class attribute of every td
    fxq2,     \* the companion page (part_001): every td's fx queue
    pc2,      \* the companion page (part_001): position of its keyup handler
    exc,      \* the exception that ended the last keyup handler ("" when it returned)
    before,   \* history: what came before the last click or step (at most one record)
    hasty     \* the number of events taken while class transitions were pending

lifeVars == <<cls, fxq, pc, key, gen, stepped>>

combVars == <<jqfn, engine, cur, last>>

stdVars == <<cls2, fxq2, pc2>>

\* what life.js leaves alone: the plugin's state and the companion page
restVars == <<combVars, stdVars, hasty>>

(***************************************************************************)
(* The DOM built by buildLifeUniverse: SIZE tr elements, each with SIZE    *)
(* td children.  A cell is <<row, column>>, both counted from 0.           *)
(***************************************************************************)
Index == 0 .. (SIZE - 1)

Cells == Index \X Index

\* Class names are <<prefix, number>> pairs: 'n3' is <<"n", 3>>.
Clazz(prefix, i) == <<prefix, i>>

CELL == Clazz("cell", 0)

ALIVE == Clazz("alive", 0)

\* the classes 'n0 n1 n2 n3 n4 n5 n6 n7 n8' of line 264
NClasses == { Clazz("n", i) : i \in 0 .. 8 }

\* variant: lr0 is not among the classes the step removes
LRClasses_short == { Clazz("lr", i) : i \in 1 .. 2 }

\* the classes 'lr0 lr1 lr2' of line 247
LRClasses == { Clazz("lr", i) : i \in 0 .. 2 }

\* buildLifeUniverse: every td gets the class 'cell' and nothing else
buildLifeUniverse == [c \in Cells |-> {CELL}]

\* jQuery .prev(): the immediately preceding sibling inside the same tr
PrevSibling(c) == IF c[2] > 0 THEN {<<c[1], c[2] - 1>>} ELSE {}

\* jQuery .next(): the immediately following sibling inside the same tr
NextSibling(c) == IF c[2] < SIZE - 1 THEN {<<c[1], c[2] + 1>>} ELSE {}

\* jQuery .parent() of a td: its tr, named by its row number
Parent(c) == c[1]

\* jQuery .next('tr') of a tr
NextTr(r) == IF r < SIZE - 1 THEN {r + 1} ELSE {}

\* jQuery .prev('tr') of a tr
PrevTr(r) == IF r > 0 THEN {r - 1} ELSE {}

\* jQuery .children() of a tr
Children(r) == { <<r, j>> : j \in Index }

\* does element c carry every class of the compound selector `classes`?
Matches(k, c, classes) == classes \subseteq k[c]

\* $('.cell')
AllCells(k) == { c \in Cells : Matches(k, c, {CELL}) }

(***************************************************************************)
(* jQuery set methods on selections of cells (a selection is the set of    *)
(* its elements; document order plays no part in life.js).                 *)
(***************************************************************************)
\* $a.filter($b): the elements of $a that are in $b
JqFilter(a, b) == a \cap b

\* $a.add($b)
JqAdd(a, b) == a \cup b

\* $a.not($b)
JqNot(a, b) == a \ b

(***************************************************************************)
(* The filters of life.js.  k is the class attribute of every cell at the  *)
(* moment the filter runs, clazz the class name the filter was built for.  *)
(***************************************************************************)
\* a mutant of hasOnLeft: the previous cell in document order, so that the
\* last cell of the row above counts as the left neighbour of column 0
hasOnLeft_wrap(k, clazz, sel) ==
    { c \in sel : /\ Matches(k, c, {CELL})
                  /\ \E p \in Cells :
                        /\ \/ p \in PrevSibling(c)
                           \/ c[2] = 0 /\ p = <<c[1] - 1, SIZE - 1>>
                        /\ Matches(k, p, {CELL, clazz}) }

\* $selection.filter('.cell'+clazz+' + .cell')
hasOnLeft(k, clazz, sel) ==
    { c \in sel : /\ Matches(k, c, {CELL})
                  /\ \E p \in PrevSibling(c) : Matches(k, p, {CELL, clazz}) }

\* $selection.next('.cell.alive').prev('.cell'): the class is hard-wired
hasOnRight(k, clazz, sel) ==
    LET nexts == UNION { { n \in NextSibling(c) : Matches(k, n, {CELL, ALIVE}) } : c \in sel }
    IN  UNION { { p \in PrevSibling(n) : Matches(k, p, {CELL}) } : n \in nexts }

\* variant: the cells with a neighbour on both sides are not taken out
hasOnLeftOrRight_union(k, clazz, sel) ==
    JqAdd(hasOnLeft(k, clazz, sel), hasOnRight(k, clazz, sel))

hasOnLeftOrRight(k, clazz, sel) ==
    LET a  == hasOnLeft(k, clazz, sel)
        b  == hasOnRight(k, clazz, sel)
        ab == JqFilter(a, b)
    IN  JqNot(JqAdd(a, b), ab)

\* a mutant of hasOnLeftAndRight: a neighbour on either side is enough
hasOnLeftAndRight_either(k, clazz, sel) ==
    JqAdd(hasOnLeft(k, clazz, sel), hasOnRight(k, clazz, sel))

hasOnLeftAndRight(k, clazz, sel) ==
    LET a  == hasOnLeft(k, clazz, sel)
        b  == hasOnRight(k, clazz, sel)
        ab == JqFilter(a, b)
    IN  ab

\* $selection.filter('.cell:nth-child('+index+')'), index counted from 1
cellsInColumnByIndex(k, index, sel) ==
    { c \in sel : Matches(k, c, {CELL}) /\ c[2] + 1 = index }

\* the cells of the selection that have a cell of class clazz right above
hasAbove(k, clazz, sel) ==
    UNION { LET column == cellsInColumnByIndex(k, columnIndex, sel)
                marked == { c \in column : Matches(k, c, {CELL, clazz}) }
                rows   == UNION { NextTr(Parent(c)) : c \in marked }
                kids   == UNION { Children(r) : r \in rows }
            IN  JqFilter(kids, column)
            : columnIndex \in 1 .. SIZE }

\* the cells of the selection that have a cell of class clazz right below
hasBelow(k, clazz, sel) ==
    UNION { LET column == cellsInColumnByIndex(k, columnIndex, sel)
                marked == { c \in column : Matches(k, c, {CELL, clazz}) }
                rows   == UNION { PrevTr(Parent(c)) : c \in marked }
                kids   == UNION { Children(r) : r \in rows }
            IN  JqFilter(kids, column)
            : columnIndex \in 1 .. SIZE }

hasAboveOrBelow(k, clazz, sel) ==
    LET a  == hasAbove(k, clazz, sel)
        b  == hasBelow(k, clazz, sel)
        ab == JqFilter(a, b)
    IN  JqNot(JqAdd(a, b), ab)

hasAboveAndBelow(k, clazz, sel) ==
    LET a  == hasAbove(k, clazz, sel)
        b  == hasBelow(k, clazz, sel)
        ab == JqFilter(a, b)
    IN  ab

(***************************************************************************)
(* The sole operation: incrementNeighbourCountBy(prefix)(number).          *)
(***************************************************************************)
\* one pass of the loop body on one element of the selection: an element
\* carrying prefix+i loses it and gains prefix+(i+number)
IncrementOne(classes, prefix, number, i) ==
    IF Clazz(prefix, i) \in classes
    THEN (classes \ {Clazz(prefix, i)}) \cup {Clazz(prefix, i + number)}
    ELSE classes

RECURSIVE IncrementUp(_, _, _, _)
\* a mutant loop: for (i = 0; i <= 8; i++)
IncrementUp(classes, prefix, number, i) ==
    IF i > 8 THEN classes
    ELSE IncrementUp(IncrementOne(classes, prefix, number, i), prefix, number, i + 1)

RECURSIVE IncrementLoop(_, _, _, _)
\* for (i = 8; i >= 0; i--)
IncrementLoop(classes, prefix, number, i) ==
    IF i < 0 THEN classes
    ELSE IncrementLoop(IncrementOne(classes, prefix, number, i), prefix, number, i - 1)

\* a mutant of incrementNeighbourCountBy: the loop counts upwards, so a class
\* just written is found and incremented again
incrementNeighbourCountBy_up(k, prefix, number, sel) ==
    IF number = 0 THEN k
    ELSE [c \in Cells |-> IF c \in sel THEN IncrementUp(k[c], prefix, number, 0) ELSE k[c]]

\* every pass filters the selection by class and rewrites the class of the
\* elements found; the elements are independent of each other
incrementNeighbourCountBy(k, prefix, number, sel) ==
    IF number = 0 THEN k
    ELSE [c \in Cells |-> IF c \in sel THEN IncrementLoop(k[c], prefix, number, 8) ELSE k[c]]

\* jQuery .addClass(names) without a duration, on every cell of the selection
AddClass(k, names, sel) ==
    [c \in Cells |-> IF c \in sel THEN k[c] \cup names ELSE k[c]]

\* jQuery .removeClass(names) without a duration
\* variant: the whole class attribute of the selected cells is cleared
RemoveClass_all(k, names, sel) ==
    [c \in Cells |-> IF c \in sel THEN {} ELSE k[c]]

RemoveClass(k, names, sel) ==
    [c \in Cells |-> IF c \in sel THEN k[c] \ names ELSE k[c]]

\* a mutant of toggleClass: the class is added and never removed
ToggleClass_add(k, name, sel) ==
    [c \in Cells |-> IF c \notin sel THEN k[c] ELSE k[c] \cup {name}]

\* jQuery .toggleClass(name)
ToggleClass(k, name, sel) ==
    [c \in Cells |-> IF c \notin sel THEN k[c]
                     ELSE IF name \in k[c] THEN k[c] \ {name} ELSE k[c] \cup {name}]

(***************************************************************************)
(* .addClass('alive', 1000, 'easeInSine') and .removeClass(...) with a     *)
(* duration are jQuery UI's animated class changes: the change is put on   *)
(* the element's fx queue, the class attribute is left as it was, and the  *)
(* class is written when the 1000 ms transition completes.                 *)
(***************************************************************************)
AnimateClass(q, op, sel) ==
    [c \in Cells |-> IF c \in sel THEN Append(q[c], op) ELSE q[c]]

\* a mutant of the birth filter: '.n3' without ':not(.alive)'
BirthFilter_any(k, sel) ==
    { c \in sel : Matches(k, c, {Clazz("n", 3)}) }

\* a mutant of the birth filter: '.n0:not(.alive)'
BirthFilter_zero(k, sel) ==
    { c \in sel : Matches(k, c, {Clazz("n", 0)}) /\ ~ Matches(k, c, {ALIVE}) }

\* .filter('.n3:not(.alive)')
BirthFilter(k, sel) ==
    { c \in sel : Matches(k, c, {Clazz("n", 3)}) /\ ~ Matches(k, c, {ALIVE}) }

\* a mutant of the death filter: '.alive:not(.n2)'
DeathFilter_two(k, sel) ==
    { c \in sel : /\ Matches(k, c, {ALIVE})
                  /\ ~ Matches(k, c, {Clazz("n", 2)}) }

\* .filter('.alive:not(.n2,.n3)')
DeathFilter(k, sel) ==
    { c \in sel : /\ Matches(k, c, {ALIVE})
                  /\ ~ (Matches(k, c, {Clazz("n", 2)}) \/ Matches(k, c, {Clazz("n", 3)})) }

\* the cells carrying the class 'alive'
AliveCells(k) == { c \in Cells : ALIVE \in k[c] }

\* no animated class change is queued or in progress
Settled == \A c \in Cells : fxq[c] = <<>>

(***************************************************************************)
(* The plugin's select and tap as life.js uses them, on sets of cells.     *)
(* result is what the filter function returned for a copy of the selection.*)
(***************************************************************************)
\* a mutant of select: the function's result is returned as it is
SelectElems_result(this, result) == result

\* jq_fn.select: this.filter( fn.apply(copy, [copy]) )
SelectElems(this, result) == JqFilter(this, result)

(***************************************************************************)
(* The handlers of bindEventHandlers.  JavaScript runs a handler to its    *)
(* end before the next event is taken, so a click or keyup is taken only   *)
(* at pc = "idle"; the steps of the fluent expression of                   *)
(* stepForwardOneGeneration are the values of pc in between.  In Spec the  *)
(* user lets the transitions of a step finish before the next event.       *)
(***************************************************************************)
RETURN == 13

\* history kept in `before` by a Return that follows a step: the cells that
\* were alive when the step before began
StepBefore(alive) == [ev |-> "step", cell |-> <<0, 0>>, alive |-> alive, n |-> 1]

\* history kept in `before` by a click on cell c: the second of two clicks in
\* succession on one cell keeps the cells alive before the first and counts
\* 2; any other click notes the cells alive before it and counts 1
ClickBefore(b, lastKey, c, alive) ==
    IF /\ b # << >> /\ lastKey = 0
       /\ b[1].ev = "click" /\ b[1].cell = c /\ b[1].n = 1
    THEN [b[1] EXCEPT !.n = 2]
    ELSE [ev |-> "click", cell |-> c, alive |-> alive, n |-> 1]

KeyCodes == {RETURN, 32}

\* variant: the handler does not look at the keyCode
Keyup_any(code) ==
    /\ pc = "idle"
    /\ Settled
    /\ key' = code
    /\ pc' = "n0"
    /\ gen' = AliveCells(cls)
    /\ stepped' = TRUE
    /\ exc' = ""
    /\ before' = IF stepped THEN << StepBefore(gen) >> ELSE << >>
    /\ UNCHANGED <<cls, fxq, restVars>>

\* $(document).keyup(function (event) { if (event.keyCode == 13) ... })
Keyup(code) ==
    /\ pc = "idle"
    /\ Settled
    /\ key' = code
    /\ IF code = RETURN
       THEN /\ pc' = "n0"
            /\ gen' = AliveCells(cls)
            /\ stepped' = TRUE
       ELSE UNCHANGED <<pc, gen, stepped>>
    /\ exc' = IF code = RETURN THEN "" ELSE exc
    /\ before' = IF code # RETURN THEN before
                 ELSE IF stepped THEN << StepBefore(gen) >> ELSE << >>
    /\ UNCHANGED <<cls, fxq, restVars>>

\* $tbody.on('click', '.cell', ...): toggleClass("alive") on the clicked cell
Click(c) ==
    /\ pc = "idle"
    /\ Settled
    /\ Matches(cls, c, {CELL})
    /\ cls' = ToggleClass(cls, ALIVE, {c})
    /\ key' = 0
    /\ gen' = {}
    /\ stepped' = FALSE
    /\ before' = << ClickBefore(before, key, c, AliveCells(cls)) >>
    /\ UNCHANGED <<fxq, pc, exc, restVars>>

\* $('.cell').addClass('n0').addClass('lr0')
StartCounting ==
    /\ pc = "n0"
    /\ cls' = AddClass(AddClass(cls, {Clazz("n", 0)}, AllCells(cls)),
                       {Clazz("lr", 0)}, AllCells(cls))
    /\ pc' = "lrOne"
    /\ UNCHANGED <<fxq, key, gen, stepped, exc, before, restVars>>

\* .select(hasOnLeftOrRight('.alive')).tap(n + 1).tap(lr + 1).end()
CountLeftOrRight ==
    /\ pc = "lrOne"
    /\ \E sel \in { SelectElems(AllCells(cls), hasOnLeftOrRight(cls, ALIVE, AllCells(cls))) } :
          cls' = incrementNeighbourCountBy(
                      incrementNeighbourCountBy(cls, "n", 1, sel), "lr", 1, sel)
    /\ pc' = "lrTwo"
    /\ UNCHANGED <<fxq, key, gen, stepped, exc, before, restVars>>

\* .select(hasOnLeftAndRight('.alive')).tap(n + 2).tap(lr + 2).end()
CountLeftAndRight ==
    /\ pc = "lrTwo"
    /\ \E sel \in { SelectElems(AllCells(cls), hasOnLeftAndRight(cls, ALIVE, AllCells(cls))) } :
          cls' = incrementNeighbourCountBy(
                      incrementNeighbourCountBy(cls, "n", 2, sel), "lr", 2, sel)
    /\ pc' = "vertOne"
    /\ UNCHANGED <<fxq, key, gen, stepped, exc, before, restVars>>

\* .select(hasAboveOrBelow('.alive')).tap(n + 1).end()
CountAboveOrBelow ==
    /\ pc = "vertOne"
    /\ \E sel \in { SelectElems(AllCells(cls), hasAboveOrBelow(cls, ALIVE, AllCells(cls))) } :
          cls' = incrementNeighbourCountBy(cls, "n", 1, sel)
    /\ pc' = "vertTwo"
    /\ UNCHANGED <<fxq, key, gen, stepped, exc, before, restVars>>

\* .select(hasAboveAndBelow('.alive')).tap(n + 2).end()
CountAboveAndBelow ==
    /\ pc = "vertTwo"
    /\ \E sel \in { SelectElems(AllCells(cls), hasAboveAndBelow(cls, ALIVE, AllCells(cls))) } :
          cls' = incrementNeighbourCountBy(cls, "n", 2, sel)
    /\ pc' = "diagOr1"
    /\ UNCHANGED <<fxq, key, gen, stepped, exc, before, restVars>>

\* .select(hasAboveOrBelow('.lr1')).tap(n + 1).end()
CountDiagOrLr1 ==
    /\ pc = "diagOr1"
    /\ \E sel \in { SelectElems(AllCells(cls), hasAboveOrBelow(cls, Clazz("lr", 1), AllCells(cls))) } :
          cls' = incrementNeighbourCountBy(cls, "n", 1, sel)
    /\ pc' = "diagOr2"
    /\ UNCHANGED <<fxq, key, gen, stepped, exc, before, restVars>>

\* .select(hasAboveOrBelow('.lr2')).tap(n + 2).end()
CountDiagOrLr2 ==
    /\ pc = "diagOr2"
    /\ \E sel \in { SelectElems(AllCells(cls), hasAboveOrBelow(cls, Clazz("lr", 2), AllCells(cls))) } :
          cls' = incrementNeighbourCountBy(cls, "n", 2, sel)
    /\ pc' = "diagAnd1"
    /\ UNCHANGED <<fxq, key, gen, stepped, exc, before, restVars>>

\* variant: the phase adds 1 where the cells above and below both carry lr1
CountDiagAndLr1_one ==
    /\ pc = "diagAnd1"
    /\ \E sel \in { SelectElems(AllCells(cls), hasAboveAndBelow(cls, Clazz("lr", 1), AllCells(cls))) } :
          cls' = incrementNeighbourCountBy(cls, "n", 1, sel)
    /\ pc' = "diagAnd2"
    /\ UNCHANGED <<fxq, key, gen, stepped, exc, before, restVars>>

\* .select(hasAboveAndBelow('.lr1')).tap(n + 2).end()
CountDiagAndLr1 ==
    /\ pc = "diagAnd1"
    /\ \E sel \in { SelectElems(AllCells(cls), hasAboveAndBelow(cls, Clazz("lr", 1), AllCells(cls))) } :
          cls' = incrementNeighbourCountBy(cls, "n", 2, sel)
    /\ pc' = "diagAnd2"
    /\ UNCHANGED <<fxq, key, gen, stepped, exc, before, restVars>>

\* .select(hasAboveAndBelow('.lr2')).tap(n + 4).end()
CountDiagAndLr2 ==
    /\ pc = "diagAnd2"
    /\ \E sel \in { SelectElems(AllCells(cls), hasAboveAndBelow(cls, Clazz("lr", 2), AllCells(cls))) } :
          cls' = incrementNeighbourCountBy(cls, "n", 4, sel)
    /\ pc' = "dropLr"
    /\ UNCHANGED <<fxq, key, gen, stepped, exc, before, restVars>>

\* .removeClass('lr0 lr1 lr2')
DropLr ==
    /\ pc = "dropLr"
    /\ cls' = RemoveClass(cls, LRClasses, AllCells(cls))
    /\ pc' = "births"
    /\ UNCHANGED <<fxq, key, gen, stepped, exc, before, restVars>>

\* .filter('.n3:not(.alive)').addClass('alive', 1000, 'easeInSine').end()
Births ==
    /\ pc = "births"
    /\ fxq' = AnimateClass(fxq, "addClass", BirthFilter(cls, AllCells(cls)))
    /\ pc' = "deaths"
    /\ UNCHANGED <<cls, key, gen, stepped, exc, before, restVars>>

\* .filter('.alive:not(.n2,.n3)').removeClass('alive', 1000, 'easeInSine').end()
Deaths ==
    /\ pc = "deaths"
    /\ fxq' = AnimateClass(fxq, "removeClass", DeathFilter(cls, AllCells(cls)))
    /\ pc' = "dropN"
    /\ UNCHANGED <<cls, key, gen, stepped, exc, before, restVars>>

\* .removeClass('n0 n1 n2 n3 n4 n5 n6 n7 n8'); the handler returns
DropN ==
    /\ pc = "dropN"
    /\ cls' = RemoveClass(cls, NClasses, AllCells(cls))
    /\ pc' = "idle"
    /\ UNCHANGED <<fxq, key, gen, stepped, exc, before, restVars>>

\* the class change an animation writes when it completes
ApplyFx(classes, op) ==
    IF op = "addClass" THEN classes \cup {ALIVE} ELSE classes \ {ALIVE}

\* The 1000 ms transitions started by one handler share their start time and
\* complete in the same timer tick: every running animation writes its class
\* and leaves its element's queue.
TransitionsComplete ==
    /\ pc = "idle"
    /\ ~ Settled
    /\ cls' = [c \in Cells |->
                 IF fxq[c] = <<>> THEN cls[c] ELSE ApplyFx(cls[c], Head(fxq[c]))]
    /\ fxq' = [c \in Cells |-> IF fxq[c] = <<>> THEN <<>> ELSE Tail(fxq[c])]
    /\ UNCHANGED <<pc, key, gen, stepped, exc, before, restVars>>

StepForwardOneGeneration ==
    \/ StartCounting
    \/ CountLeftOrRight
    \/ CountLeftAndRight
    \/ CountAboveOrBelow
    \/ CountAboveAndBelow
    \/ CountDiagOrLr1
    \/ CountDiagOrLr2
    \/ CountDiagAndLr1
    \/ CountDiagAndLr2
    \/ DropLr
    \/ Births
    \/ Deaths
    \/ DropN

LifeInit ==
    /\ cls = buildLifeUniverse
    /\ fxq = [c \in Cells |-> <<>>]
    /\ pc = "idle"
    /\ key = 0
    /\ gen = {}
    /\ stepped = FALSE

LifeNext ==
    \/ \E code \in KeyCodes : Keyup(code)
    \/ \E c \in Cells : Click(c)
    \/ StepForwardOneGeneration
    \/ TransitionsComplete


(***************************************************************************)
(* The standard implementation (part_001) and the fluent refactoring       *)
(* (part_000).  Both build the same table, bind the same two handlers and  *)
(* share hasOnLeft, hasOnRight, hasOnLeftOrRight, cellsInColumnByIndex and *)
(* the increment loop with life.js; what differs is modelled here.  The    *)
(* fluent refactoring calls the same functions through .into, .select and  *)
(* .tap.                                                                   *)
(***************************************************************************)
\* the class names resetCount removes: prefix + '1 ' + ... + prefix + '6 ' +
\* '7 ' + prefix + '8' -- the seventh name is '7', without the prefix
ResetClasses(prefix) ==
    { Clazz(prefix, i) : i \in {1, 2, 3, 4, 5, 6, 8} } \cup { Clazz("", 7) }

\* resetCount(prefix)($selection): .removeClass(...).addClass(prefix + '0')
resetCount(k, prefix, sel) ==
    AddClass(RemoveClass(k, ResetClasses(prefix), sel), {Clazz(prefix, 0)}, sel)

\* hasOnRight(clazz)( hasOnLeft(clazz)($selection) )
hasOnLeftAndRightStd(k, clazz, sel) ==
    hasOnRight(k, clazz, hasOnLeft(k, clazz, sel))

\* the cells right below a cell of class clazz anywhere in the document, column
\* by column, filtered by the selection
hasAboveStd(k, clazz, sel) ==
    UNION { LET marked == cellsInColumnByIndex(k, columnIndex,
                              { c \in Cells : Matches(k, c, {CELL, clazz}) })
                rows   == UNION { NextTr(Parent(c)) : c \in marked }
                kids   == UNION { Children(r) : r \in rows }
            IN  JqFilter(cellsInColumnByIndex(k, columnIndex, kids), sel)
            : columnIndex \in 1 .. SIZE }

\* the cells right above a cell of class clazz
hasBelowStd(k, clazz, sel) ==
    UNION { LET marked == cellsInColumnByIndex(k, columnIndex,
                              { c \in Cells : Matches(k, c, {CELL, clazz}) })
                rows   == UNION { PrevTr(Parent(c)) : c \in marked }
                kids   == UNION { Children(r) : r \in rows }
            IN  JqFilter(cellsInColumnByIndex(k, columnIndex, kids), sel)
            : columnIndex \in 1 .. SIZE }

\* $a.add($b).not($a.filter($b))
hasAboveOrBelowStd(k, clazz, sel) ==
    LET a == hasAboveStd(k, clazz, sel)
        b == hasBelowStd(k, clazz, sel)
    IN  JqNot(JqAdd(a, b), JqFilter(a, b))

\* hasBelow(clazz)( hasAbove(clazz)($selection) )
hasAboveAndBelowStd(k, clazz, sel) ==
    hasBelowStd(k, clazz, hasAboveStd(k, clazz, sel))

\* a mutant of hasNeighbours: the last number handed over is left out
hasNeighbours_short(k, numbers, sel) ==
    { c \in sel : /\ Matches(k, c, {CELL})
                  /\ \E i \in 1 .. (Len(numbers) - 1) : Clazz("n", numbers[i]) \in k[c] }

\* part_001, hasNeighbours(a, b, ...): the selector '.cell.na,.cell.nb,...'
hasNeighbours(k, numbers, sel) ==
    { c \in sel : /\ Matches(k, c, {CELL})
                  /\ \E i \in 1 .. Len(numbers) : Clazz("n", numbers[i]) \in k[c] }

\* part_001: hasNeighbours(3)( $selection.not('.alive') )
willBeBorn(k, sel) ==
    hasNeighbours(k, <<3>>, { c \in sel : ~ Matches(k, c, {ALIVE}) })

\* part_001: hasNeighbours(0,1,4,5,6,7,8)( $selection.filter('.alive') )
willDie(k, sel) ==
    hasNeighbours(k, <<0, 1, 4, 5, 6, 7, 8>>, { c \in sel : Matches(k, c, {ALIVE}) })

\* part_000, hasNeighbours(a, b, ...): every pass of the loop over the
\* arguments reads the variable `number`, which no scope declares, so the
\* call ends in a ReferenceError as soon as it has an argument
hasNeighboursFluent(numbers) ==
    IF Len(numbers) >= 1 THEN "ReferenceError" ELSE ""

\* part_000: $selection.not('.alive').into(hasNeighbours(3))
willBeBornFluent == hasNeighboursFluent(<<3>>)

\* part_000: $selection.filter('.alive').into(hasNeighbours(2,3))
willDieFluent == hasNeighboursFluent(<<2, 3>>)

\* the statement of stepForwardOneGeneration that follows the one at p
NextPc(p) ==
    CASE p = "n0"       -> "lrOne"
      [] p = "lrOne"    -> "lrTwo"
      [] p = "lrTwo"    -> "vertOne"
      [] p = "vertOne"  -> "vertTwo"
      [] p = "vertTwo"  -> "diagOr1"
      [] p = "diagOr1"  -> "diagOr2"
      [] p = "diagOr2"  -> "diagAnd1"
      [] p = "diagAnd1" -> "diagAnd2"
      [] p = "diagAnd2" -> "dropLr"
      [] p = "dropLr"   -> "births"
      [] p = "births"   -> "deaths"
      [] p = "deaths"   -> "dropN"
      [] OTHER          -> "idle"

\* incrementNeighbourCount(number) and, for the left/right statements,
\* incrementLeftRightCount(number) on the cells a filter selected
StdCount(k, sel, number, lr) ==
    IF lr THEN incrementNeighbourCountBy(
                   incrementNeighbourCountBy(k, "n", number, sel), "lr", number, sel)
    ELSE incrementNeighbourCountBy(k, "n", number, sel)

\* the class attributes after the statement of the standard
\* stepForwardOneGeneration at p, run on the class attributes k
StdPhase(p, k) ==
    CASE p = "n0"       -> resetCount(resetCount(k, "n", AllCells(k)), "lr", AllCells(k))
      [] p = "lrOne"    -> StdCount(k, hasOnLeftOrRight(k, ALIVE, AllCells(k)), 1, TRUE)
      [] p = "lrTwo"    -> StdCount(k, hasOnLeftAndRightStd(k, ALIVE, AllCells(k)), 2, TRUE)
      [] p = "vertOne"  -> StdCount(k, hasAboveOrBelowStd(k, ALIVE, AllCells(k)), 1, FALSE)
      [] p = "vertTwo"  -> StdCount(k, hasAboveAndBelowStd(k, ALIVE, AllCells(k)), 2, FALSE)
      [] p = "diagOr1"  -> StdCount(k, hasAboveOrBelowStd(k, Clazz("lr", 1), AllCells(k)), 1, FALSE)
      [] p = "diagOr2"  -> StdCount(k, hasAboveOrBelowStd(k, Clazz("lr", 2), AllCells(k)), 2, FALSE)
      [] p = "diagAnd1" -> StdCount(k, hasAboveAndBelowStd(k, Clazz("lr", 1), AllCells(k)), 2, FALSE)
      [] p = "diagAnd2" -> StdCount(k, hasAboveAndBelowStd(k, Clazz("lr", 2), AllCells(k)), 4, FALSE)
      [] p = "dropLr"   -> resetCount(k, "lr", AllCells(k))
      [] p = "dropN"    -> resetCount(k, "n", AllCells(k))
      [] OTHER          -> k

\* animateBirths(willBeBorn(allCells)) and animateDeaths(willDie(allCells))
StdFx(p, k, q) ==
    CASE p = "births" -> AnimateClass(q, "addClass", willBeBorn(k, AllCells(k)))
      [] p = "deaths" -> AnimateClass(q, "removeClass", willDie(k, AllCells(k)))
      [] OTHER        -> q

(***************************************************************************)
(* jquery.combinators.js.  JavaScript values are records of one shape:     *)
(* k is the kind, s a string or a function's name, e the elements of a     *)
(* jQuery object and st its stack of previous selections (prevObject,      *)
(* nearest first).  Two jQuery objects are taken to be the same object     *)
(* when their elements and their stacks agree.                             *)
(***************************************************************************)
Elem == 1 .. NElem

Value(k, s, e, st) == [k |-> k, s |-> s, e |-> e, st |-> st]

SelV(e, st) == Value("sel", "", e, st)

StrV(x) == Value("str", x, {}, <<>>)

FnV(name) == Value("fn", name, {}, <<>>)

Undefined == Value("undefined", "", {}, <<>>)

\* an exception leaves the expression without a value
Thrown(what) == Value("thrown", what, {}, <<>>)

\* JavaScript truthiness: objects and functions are truthy, '' and undefined falsy
Truthy(v) ==
    CASE v.k = "sel" -> TRUE
      [] v.k = "fn" -> TRUE
      [] v.k = "str" -> v.s # ""
      [] OTHER -> FALSE

\* jQuery .pushStack(elems): a new object whose prevObject is this
PushStack(this, elems) == SelV(elems, <<this.e>> \o this.st)

\* jQuery .end(): this.prevObject, or an empty jQuery object
JqEnd(this) ==
    IF this.st = <<>> THEN SelV({}, <<>>) ELSE SelV(Head(this.st), Tail(this.st))

\* $(this): a new jQuery object with the same elements and no stack
JqCopy(this) == SelV(this.e, <<>>)

\* the functions handed to the combinators, by what they do with their
\* first argument and what they return: 'blitz' (a string), nothing at all,
\* the argument itself, a filter of it, a filter followed by a traverse
FnNames == {"blitz", "nothing", "self", "odds", "oddsNext"}

Odds == { x \in Elem : x % 2 = 1 }

NextOf(es) == { x \in Elem : x - 1 \in es }

ApplyFn(name, args) ==
    CASE name = "blitz"    -> StrV("blitz")
      [] name = "self"     -> args[1]
      [] name = "odds"     -> PushStack(args[1], args[1].e \cap Odds)
      [] name = "oddsNext" -> PushStack(PushStack(args[1], args[1].e \cap Odds),
                                        NextOf(args[1].e \cap Odds))
      [] OTHER             -> Undefined

\* the extra arguments a call may carry: a string, a function
ExtraVals == { StrV("white"), FnV("unless") }

Extras == UNION { [1 .. n -> ExtraVals] : n \in 0 .. MaxExtras }

\* lambda(fn): without Functional Javascript on the page fn is used as it is
lambda(fn) == fn

\* f.apply(this, args): a call, or a TypeError when f is no function.  The
\* outcome carries the value returned and the invocation made.
FnApply(f, args) ==
    IF f.k = "fn"
    THEN [ret |-> ApplyFn(f.s, args), threw |-> FALSE,
          inv |-> << [f |-> f.s, args |-> args, ret |-> ApplyFn(f.s, args)] >>]
    ELSE [ret |-> Thrown("TypeError"), threw |-> TRUE, inv |-> << >>]

\* aps.call(arguments, offset)
Slice(args, offset) == SubSeq(args, offset + 1, Len(args))

\* a mutant of prependArgs: the offset is ignored, so fn itself is passed on
prependArgs_all(vals, args, offset) == vals \o args

prependArgs(vals, args, offset) == vals \o Slice(args, offset)

\* what a method call yields: its value, whether it threw, the invocations made
Outcome(res, threw, inv) == [res |-> res, threw |-> threw, inv |-> inv]

\* a mutant of T: the receiver is returned
T_this(this, args) ==
    LET r == FnApply(lambda(args[1]), prependArgs(<<this>>, args, 1))
    IN  Outcome(IF r.threw THEN r.ret ELSE this, r.threw, r.inv)

\* jq_fn.T = function (fn) { return lambda(fn).apply(this, prependArgs([this], arguments, 1)) }
T(this, args) ==
    LET r == FnApply(lambda(args[1]), prependArgs(<<this>>, args, 1))
    IN  Outcome(r.ret, r.threw, r.inv)

\* a mutant of K: the function's value is returned
K_result(this, args) ==
    LET r == FnApply(lambda(args[1]), prependArgs(<<this>>, args, 1))
    IN  Outcome(r.ret, r.threw, r.inv)

\* jq_fn.K = function (fn) { lambda(fn).apply(...); return this }
K(this, args) ==
    LET r == FnApply(lambda(args[1]), prependArgs(<<this>>, args, 1))
    IN  Outcome(IF r.threw THEN r.ret ELSE this, r.threw, r.inv)

\* a mutant of ergo: the length of the selection is not looked at
ergo_always(this, args) ==
    LET r == FnApply(lambda(args[1]), prependArgs(<<this>>, args, 1))
    IN  Outcome(IF r.threw THEN r.ret ELSE this, r.threw, r.inv)

\* jq_fn.ergo = function (fn, optionalUnless) { ... }
ergo(this, args) ==
    LET optionalUnless == IF Len(args) >= 2 THEN args[2] ELSE Undefined
        whichFn == IF this.e # {} THEN args[1]
                   ELSE IF Truthy(optionalUnless) THEN optionalUnless ELSE FnV("noop")
        r == FnApply(lambda(whichFn), prependArgs(<<this>>, args, 1))
    IN  Outcome(IF r.threw THEN r.ret ELSE this, r.threw, r.inv)

\* this.filter('*'): every element of this, on a new stack entry
FilterAll(this) == Outcome(PushStack(this, this.e), FALSE, << >>)

\* this.filter('not(*)'): the string is no selector (it lacks the colon of
\* ':not(*)').  The old selector engine matches the tag name 'not', gives up
\* on the rest and returns no element; the engine of jQuery 1.8 and later
\* throws "Syntax error, unrecognized expression".
FilterNotStar(this, eng) ==
    IF eng = "strict"
    THEN Outcome(Thrown("SyntaxError"), TRUE, << >>)
    ELSE Outcome(PushStack(this, {}), FALSE, << >>)

\* jq_fn.when = function (fn) { return fn(...) ? this.filter('*') : this.filter('not(*)') }
when(this, args, eng) ==
    LET r == FnApply(lambda(args[1]), prependArgs(<<this>>, args, 1))
        f == IF Truthy(r.ret) THEN FilterAll(this) ELSE FilterNotStar(this, eng)
    IN  IF r.threw THEN Outcome(r.ret, TRUE, r.inv)
        ELSE Outcome(f.res, f.threw, r.inv)

\* this.filter(q) for the value q the function returned: a jQuery object
\* keeps the elements of this that q holds; 'blitz' and '' are selectors
\* no element matches; undefined keeps nothing
FilterBy(this, q) ==
    IF q.k = "sel" THEN PushStack(this, SelectElems(this.e, q.e))
    ELSE PushStack(this, {})

\* a mutant of select: the function's value is returned, as into does
select_into(this, args) ==
    LET copy == JqCopy(this)
        r == FnApply(args[1], <<copy>> \o Slice(args, 1))
    IN  Outcome(r.ret, r.threw, r.inv)

\* jq_fn.select = function (fn) { var copy = $(this);
\*     return this.filter( fn.apply(copy, [copy].concat(aps.call(arguments, 1))) ) }
select(this, args) ==
    LET copy == JqCopy(this)
        r == FnApply(args[1], <<copy>> \o Slice(args, 1))
    IN  IF r.threw THEN Outcome(r.ret, TRUE, r.inv)
        ELSE Outcome(FilterBy(this, r.ret), FALSE, r.inv)

(***************************************************************************)
(* jQuery.fn: the plugin binds T, K, ergo, when and select, and binds tap  *)
(* and into unless another library has taken the name.                     *)
(***************************************************************************)
MethodNames == {"T", "K", "ergo", "when", "select", "tap", "into"}

\* a mutant of the plugin's load: tap and into are bound unconditionally
PluginLoad_overwrite(fnTable) ==
    [m \in MethodNames |->
        CASE m \in {"T", "K", "ergo", "when", "select"} -> m
          [] m = "tap"  -> "K"
          [] m = "into" -> "T"]

\* the plugin's (function ($, undefined) { ... })(jQuery)
PluginLoad(fnTable) ==
    [m \in MethodNames |->
        CASE m \in {"T", "K", "ergo", "when", "select"} -> m
          [] m = "tap"  -> IF fnTable["tap"] = "undefined" THEN "K" ELSE fnTable["tap"]
          [] m = "into" -> IF fnTable["into"] = "undefined" THEN "T" ELSE fnTable["into"]]

\* jQuery.fn before any plug-in is loaded
FreshFn == [m \in MethodNames |-> "undefined"]

\* the method bound to a name, applied
Invoke(impl, this, args, eng) ==
    CASE impl = "T"      -> T(this, args)
      [] impl = "K"      -> K(this, args)
      [] impl = "ergo"   -> ergo(this, args)
      [] impl = "when"   -> when(this, args, eng)
      [] impl = "select" -> select(this, args)

NoCall ==
    [m |-> "none", via |-> "none", recv |-> Undefined, fn |-> "", ex |-> << >>,
     inv |-> << >>, res |-> Undefined, threw |-> FALSE]

\* the page loads jquery.combinators.js
LoadPlugin ==
    /\ jqfn["T"] = "undefined"
    /\ jqfn' = PluginLoad(jqfn)
    /\ UNCHANGED <<engine, cur, last, lifeVars, stdVars, exc, before, hasty>>

\* $(...): a fluent expression starts from a selection of the document
Start(es) ==
    /\ jqfn["T"] # "undefined"
    /\ cur' = SelV(es, << >>)
    /\ last' = NoCall
    /\ UNCHANGED <<jqfn, engine, lifeVars, stdVars, exc, before, hasty>>

\* cur.m(fn, extras...) for a method name m the plugin has bound
Call(impl, m, fn, ex) ==
    /\ jqfn[m] = impl
    /\ cur.k = "sel"
    /\ Len(cur.st) <= MaxStack
    /\ \E r \in { Invoke(impl, cur, <<FnV(fn)>> \o ex, engine) } :
           /\ cur' = r.res
           /\ last' = [m |-> impl, via |-> m, recv |-> cur, fn |-> fn, ex |-> ex,
                       inv |-> r.inv, res |-> r.res, threw |-> r.threw]
    /\ UNCHANGED <<jqfn, engine, lifeVars, stdVars, exc, before, hasty>>

CallT == \E m \in {"T", "into"}, fn \in FnNames, ex \in Extras : Call("T", m, fn, ex)

CallK == \E m \in {"K", "tap"}, fn \in FnNames, ex \in Extras : Call("K", m, fn, ex)

CallErgo == \E fn \in FnNames, ex \in Extras : Call("ergo", "ergo", fn, ex)

CallWhen == \E fn \in FnNames, ex \in Extras : Call("when", "when", fn, ex)

CallSelect == \E fn \in FnNames, ex \in Extras : Call("select", "select", fn, ex)

\* cur.end(), jQuery's own method: the call it undoes stays on record
End ==
    /\ cur.k = "sel"
    /\ last.m \notin {"none", "end"}
    /\ cur' = JqEnd(cur)
    /\ last' = [last EXCEPT !.via = last.m, !.m = "end", !.res = JqEnd(cur)]
    /\ UNCHANGED <<jqfn, engine, lifeVars, stdVars, exc, before, hasty>>

\* life.js runs on a page that has loaded the plugin into a fresh jQuery
CombIdle ==
    /\ jqfn = PluginLoad(FreshFn)
    /\ engine = "legacy"
    /\ cur = Undefined
    /\ last = NoCall

CombInit ==
    /\ jqfn \in { f \in [MethodNames -> {"undefined", "foreign"}] :
                    \A m \in MethodNames \ {"tap", "into"} : f[m] = "undefined" }
    /\ engine \in {"legacy", "strict"}
    /\ cur = Undefined
    /\ last = NoCall

CombNext ==
    \/ LoadPlugin
    \/ \E es \in SUBSET Elem : Start(es)
    \/ CallT
    \/ CallK
    \/ CallErgo
    \/ CallWhen
    \/ CallSelect
    \/ End

vars ==
    <<cls, fxq, pc, key, gen, stepped, jqfn, engine, cur, last,
      cls2, fxq2, pc2, exc, before, hasty>>

\* the companion page before any event
StdIdle ==
    /\ cls2 = buildLifeUniverse
    /\ fxq2 = [c \in Cells |-> <<>>]
    /\ pc2 = "idle"

\* no exception raised, no event taken
NoHistory ==
    /\ exc = ""
    /\ before = << >>
    /\ hasty = 0

Init == LifeInit /\ CombIdle /\ StdIdle /\ NoHistory

Next == LifeNext

\* the Life page: clicks, Return keyups and the transitions they start
Spec == Init /\ [][Next]_vars

\* the plugin: it is loaded, and fluent expressions are evaluated
InitComb == LifeInit /\ CombInit /\ StdIdle /\ NoHistory

SpecComb == InitComb /\ [][CombNext]_vars

(***************************************************************************)
(* life.js and its companion, the standard implementation, side by side:   *)
(* two pages that receive the same clicks and the same keyups.  Each page  *)
(* runs its own handler to its end (here life.js first); the user lets     *)
(* the transitions of both pages finish before the next event.  The        *)
(* history before is not kept here.                                        *)
(***************************************************************************)
Settled2 == \A c \in Cells : fxq2[c] = <<>>

\* the same key released on both pages
PairKeyup(code) ==
    /\ pc = "idle" /\ pc2 = "idle"
    /\ Settled /\ Settled2
    /\ key' = code
    /\ IF code = RETURN
       THEN /\ pc' = "n0"
            /\ pc2' = "n0"
            /\ gen' = AliveCells(cls)
            /\ stepped' = TRUE
       ELSE UNCHANGED <<pc, pc2, gen, stepped>>
    /\ UNCHANGED <<cls, fxq, cls2, fxq2, exc, before, combVars, hasty>>

\* the same cell clicked on both pages
PairClick(c) ==
    /\ pc = "idle" /\ pc2 = "idle"
    /\ Settled /\ Settled2
    /\ Matches(cls, c, {CELL}) /\ Matches(cls2, c, {CELL})
    /\ cls' = ToggleClass(cls, ALIVE, {c})
    /\ cls2' = ToggleClass(cls2, ALIVE, {c})
    /\ key' = 0
    /\ gen' = {}
    /\ stepped' = FALSE
    /\ UNCHANGED <<fxq, fxq2, pc, pc2, exc, before, combVars, hasty>>

\* the next statement of the standard stepForwardOneGeneration
StdStatement ==
    /\ pc = "idle" /\ pc2 # "idle"
    /\ \E k \in { StdPhase(pc2, cls2) } : cls2' = k
    /\ fxq2' = StdFx(pc2, cls2, fxq2)
    /\ pc2' = NextPc(pc2)
    /\ UNCHANGED <<lifeVars, combVars, exc, before, hasty>>

\* the transitions of both pages complete
PairTransitionsComplete ==
    /\ pc = "idle" /\ pc2 = "idle"
    /\ ~ (Settled /\ Settled2)
    /\ cls' = [c \in Cells |->
                 IF fxq[c] = <<>> THEN cls[c] ELSE ApplyFx(cls[c], Head(fxq[c]))]
    /\ fxq' = [c \in Cells |-> IF fxq[c] = <<>> THEN <<>> ELSE Tail(fxq[c])]
    /\ cls2' = [c \in Cells |->
                 IF fxq2[c] = <<>> THEN cls2[c] ELSE ApplyFx(cls2[c], Head(fxq2[c]))]
    /\ fxq2' = [c \in Cells |-> IF fxq2[c] = <<>> THEN <<>> ELSE Tail(fxq2[c])]
    /\ UNCHANGED <<pc, pc2, key, gen, stepped, combVars, exc, before, hasty>>

PairNext ==
    \/ \E code \in KeyCodes : PairKeyup(code)
    \/ \E c \in Cells : PairClick(c)
    \/ StepForwardOneGeneration
    \/ StdStatement
    \/ PairTransitionsComplete

SpecPair == Init /\ [][PairNext]_vars

(***************************************************************************)
(* The fluent refactoring (part_000) on the page.  Its handlers are those  *)
(* of life.js (Keyup, Click); its stepForwardOneGeneration runs the        *)
(* statements of the standard implementation as one chain, until the chain *)
(* reaches .select(willBeBorn).  The page is followed through the clicks   *)
(* that set a grid up and then through every Return that follows.          *)
(***************************************************************************)
FluentClick(c) ==
    /\ exc = ""
    /\ Click(c)

\* .tap(resetNeighbourCount) ... .tap(resetLeftRightCount): the statements
\* of the chain before the rules
FluentStatement ==
    /\ pc \notin {"idle", "births", "deaths", "dropN"}
    /\ \E k \in { StdPhase(pc, cls) } : cls' = k
    /\ pc' = NextPc(pc)
    /\ UNCHANGED <<fxq, key, gen, stepped, exc, before, restVars>>

\* .select(willBeBorn): select applies willBeBorn, which calls
\* hasNeighbours(3); the ReferenceError leaves the handler, so that
\* .tap(animateBirths), .select(willDie).tap(animateDeaths) and the last
\* .tap(resetNeighbourCount) are not reached
FluentBirths ==
    /\ pc = "births"
    /\ willBeBornFluent # ""
    /\ exc' = willBeBornFluent
    /\ pc' = "idle"
    /\ UNCHANGED <<cls, fxq, key, gen, stepped, before, restVars>>

FluentNext ==
    \/ \E code \in KeyCodes : Keyup(code)
    \/ \E c \in Cells : FluentClick(c)
    \/ FluentStatement
    \/ FluentBirths

SpecFluent == Init /\ [][FluentNext]_vars

(***************************************************************************)
(* life.js with a user who does not wait.  Nothing in bindEventHandlers    *)
(* looks at pending transitions (the variable iterating is set to false    *)
(* and never read), so a keyup or a click is handled whenever no handler   *)
(* is running.  MaxHasty bounds the events taken while transitions are     *)
(* pending, MaxPending the class changes queued on one cell.               *)
(***************************************************************************)
MaxHasty == 1

MaxPending == 2

\* the keyup handler, taken while transitions are pending
HastyKeyup(code) ==
    /\ pc = "idle"
    /\ ~ Settled
    /\ hasty < MaxHasty
    /\ \A c \in Cells : Len(fxq[c]) < MaxPending
    /\ hasty' = hasty + 1
    /\ key' = code
    /\ IF code = RETURN
       THEN /\ pc' = "n0"
            /\ gen' = AliveCells(cls)
            /\ stepped' = TRUE
       ELSE UNCHANGED <<pc, gen, stepped>>
    /\ exc' = IF code = RETURN THEN "" ELSE exc
    /\ before' = IF code # RETURN THEN before
                 ELSE IF stepped THEN << StepBefore(gen) >> ELSE << >>
    /\ UNCHANGED <<cls, fxq, combVars, stdVars>>

\* the click handler, taken while transitions are pending
HastyClick(c) ==
    /\ pc = "idle"
    /\ ~ Settled
    /\ hasty < MaxHasty
    /\ hasty' = hasty + 1
    /\ Matches(cls, c, {CELL})
    /\ cls' = ToggleClass(cls, ALIVE, {c})
    /\ key' = 0
    /\ gen' = {}
    /\ stepped' = FALSE
    /\ before' = << ClickBefore(before, key, c, AliveCells(cls)) >>
    /\ UNCHANGED <<fxq, pc, exc, combVars, stdVars>>

HastyNext ==
    \/ LifeNext
    \/ \E code \in KeyCodes : HastyKeyup(code)
    \/ \E c \in Cells : HastyClick(c)

SpecHasty == Init /\ [][HastyNext]_vars

(***************************************************************************)
(* The earlier version of the plugin: jq_fn.K, jq_fn.T and the aliases tap *)
(* and into, nothing else.  Both methods call                              *)
(*     fn.apply( this, aps.call( arguments, 1 ) )                          *)
(* so fn runs with the selection as its this and with the extra arguments  *)
(* as its parameters.                                                      *)
(***************************************************************************)
\* the i-th parameter of a function called with args: undefined when missing
Param(args, i) == IF i <= Len(args) THEN args[i] ELSE Undefined

\* the functions of FnNames called with any arguments: a jQuery method
\* called on a parameter that is no jQuery object is a TypeError
ApplyFnTo(name, args) ==
    CASE name = "blitz"   -> StrV("blitz")
      [] name = "self"    -> Param(args, 1)
      [] name \in {"odds", "oddsNext"} ->
            IF Param(args, 1).k = "sel" THEN ApplyFn(name, args) ELSE Thrown("TypeError")
      [] OTHER            -> Undefined

\* aps.call( arguments, 1 )
OldArgs(this, args) == Slice(args, 1)

\* fn.apply( this, aps.call( arguments, 1 ) )
OldApply(this, args) ==
    LET a == OldArgs(this, args)
        r == ApplyFnTo(lambda(args[1]).s, a)
    IN  [ret |-> r, threw |-> r.k = "thrown",
         inv |-> << [f |-> lambda(args[1]).s, args |-> a, ret |-> r] >>]

\* jq_fn.T = function( fn ) { ...; return fn.apply( this, aps.call( arguments, 1 ) ); }
OldT(this, args) ==
    LET r == OldApply(this, args)
    IN  Outcome(r.ret, r.threw, r.inv)

\* jq_fn.K = function( fn ) { ...; fn.apply( this, aps.call( arguments, 1 ) ); return this; }
OldK(this, args) ==
    LET r == OldApply(this, args)
    IN  Outcome(IF r.threw THEN r.ret ELSE this, r.threw, r.inv)

\* the earlier plugin's (function($,undefined){ ... })(jQuery)
OldPluginLoad(fnTable) ==
    [m \in MethodNames |->
        CASE m \in {"T", "K"} -> m
          [] m = "tap"  -> IF fnTable["tap"] = "undefined" THEN "K" ELSE fnTable["tap"]
          [] m = "into" -> IF fnTable["into"] = "undefined" THEN "T" ELSE fnTable["into"]
          [] OTHER -> fnTable[m]]

OldInvoke(impl, this, args) ==
    CASE impl = "T" -> OldT(this, args)
      [] impl = "K" -> OldK(this, args)

\* the page loads the earlier plugin
OldLoadPlugin ==
    /\ jqfn["T"] = "undefined"
    /\ jqfn' = OldPluginLoad(jqfn)
    /\ UNCHANGED <<engine, cur, last, lifeVars, stdVars, exc, before, hasty>>

\* cur.m(fn, extras...) for a method name m the earlier plugin has bound
OldCall(impl, m, fn, ex) ==
    /\ jqfn[m] = impl
    /\ cur.k = "sel"
    /\ Len(cur.st) <= MaxStack
    /\ \E r \in { OldInvoke(impl, cur, <<FnV(fn)>> \o ex) } :
           /\ cur' = r.res
           /\ last' = [m |-> impl, via |-> m, recv |-> cur, fn |-> fn, ex |-> ex,
                       inv |-> r.inv, res |-> r.res, threw |-> r.threw]
    /\ UNCHANGED <<jqfn, engine, lifeVars, stdVars, exc, before, hasty>>

OldCallT == \E m \in {"T", "into"}, fn \in FnNames, ex \in Extras : OldCall("T", m, fn, ex)

OldCallK == \E m \in {"K", "tap"}, fn \in FnNames, ex \in Extras : OldCall("K", m, fn, ex)

OldInit == LifeInit /\ CombInit /\ StdIdle /\ NoHistory

OldNext ==
    \/ OldLoadPlugin
    \/ \E es \in SUBSET Elem : Start(es)
    \/ OldCallT
    \/ OldCallK
    \/ End

SpecOld == OldInit /\ [][OldNext]_vars

(***************************************************************************)
(* life.js with clicks that land outside the cells.  The click handler is  *)
(* delegated: $tbody.on('click', '.cell', ...) runs it for the element of  *)
(* class cell the click landed on.  A position one past the last row or    *)
(* the last column is no element of the table, so the handler runs for no  *)
(* element; jQuery raises nothing.                                         *)
(***************************************************************************)
Positions == (0 .. SIZE) \X (0 .. SIZE)

Outside == Positions \ Cells

\* variant: the position is clamped to the nearest cell
Delegates_clamp(k, p) ==
    { c \in AllCells(k) : /\ c[1] = (IF p[1] = SIZE THEN SIZE - 1 ELSE p[1])
                          /\ c[2] = (IF p[2] = SIZE THEN SIZE - 1 ELSE p[2]) }

\* the elements the delegated click handler runs for
Delegates(k, p) == { c \in AllCells(k) : c = p }

\* a click at a position outside the cells
ClickOutside(p) ==
    /\ pc = "idle"
    /\ Settled
    /\ p \in Outside
    /\ cls' = ToggleClass(cls, ALIVE, Delegates(cls, p))
    /\ before' = << [ev |-> "miss", cell |-> p, alive |-> AliveCells(cls), n |-> 1] >>
    /\ UNCHANGED <<fxq, pc, key, gen, stepped, exc, restVars>>

EdgeNext ==
    \/ LifeNext
    \/ \E p \in Outside : ClickOutside(p)

SpecEdge == Init /\ [][EdgeNext]_vars

(***************************************************************************)
(* Conway's rules, stated on coordinates: what the claims compare the      *)
(* class manipulations of life.js with.                                    *)
(***************************************************************************)
\* the up to 8 cells of the table adjacent to c
Neighbours(c) ==
    { d \in Cells : /\ d # c
                    /\ d[1] - c[1] \in {-1, 0, 1}
                    /\ d[2] - c[2] \in {-1, 0, 1} }

\* the number of cells of `alive` adjacent to c
NeighbourCount(alive, c) == Cardinality(Neighbours(c) \cap alive)

\* the generation that follows `alive`
Conway(alive) ==
    { c \in Cells : \/ c \in alive /\ NeighbourCount(alive, c) \in {2, 3}
                    \/ c \notin alive /\ NeighbourCount(alive, c) = 3 }

\* the handler is inside stepForwardOneGeneration, before the rules are applied
Counting ==
    pc \in {"n0", "lrOne", "lrTwo", "vertOne", "vertTwo", "diagOr1", "diagOr2",
            "diagAnd1", "diagAnd2", "dropLr", "births"}

\* the cells with a queued addClass('alive') / removeClass('alive')
Born == { c \in Cells : fxq[c] # <<>> /\ Head(fxq[c]) = "addClass" }

Killed == { c \in Cells : fxq[c] # <<>> /\ Head(fxq[c]) = "removeClass" }

Block == { <<0, 0>>, <<0, 1>>, <<1, 0>>, <<1, 1>> }

(***************************************************************************)
(* C1.  After one stepForwardOneGeneration (the Return handler has         *)
(* returned and the class transitions it requested have completed) a cell  *)
(* is alive iff it was alive with 2 or 3 alive neighbours, or dead with    *)
(* exactly 3, counted on the table as it was before the step.  A 2x2 block *)
(* is left unchanged and a single isolated alive cell dies.                *)
(***************************************************************************)
C1_ConwayRules ==
    (pc = "idle" /\ stepped /\ Settled) =>
        /\ \A c \in Cells :
              (c \in AliveCells(cls)) <=>
                 \/ c \in gen /\ NeighbourCount(gen, c) \in {2, 3}
                 \/ c \notin gen /\ NeighbourCount(gen, c) = 3
        /\ (gen = Block => AliveCells(cls) = Block)
        /\ (Cardinality(gen) = 1 => AliveCells(cls) = {})

\* a step has run on the 2x2 block and left it as it was
C1_Witness ==
    /\ pc = "idle" /\ stepped /\ Settled /\ key = RETURN
    /\ gen = Block
    /\ AliveCells(cls) = Block

(***************************************************************************)
(* C2.  Within a step every cell's new state is computed against the       *)
(* generation that existed when the step began: no 'alive' class changes   *)
(* and no class change is requested while neighbours are counted; the      *)
(* births requested are the dead cells with 3 neighbours in that           *)
(* generation, the deaths requested afterwards are its alive cells without *)
(* 2 or 3 neighbours, and no cell is both born and killed.                 *)
(***************************************************************************)
C2_Snapshot ==
    /\ Counting => (AliveCells(cls) = gen /\ Settled)
    /\ pc = "deaths" =>
          /\ AliveCells(cls) = gen
          /\ Killed = {}
          /\ Born = { c \in Cells \ gen : NeighbourCount(gen, c) = 3 }
          /\ DeathFilter(cls, AllCells(cls)) \cap Born = {}
    /\ pc = "dropN" =>
          /\ AliveCells(cls) = gen
          /\ Born = { c \in Cells \ gen : NeighbourCount(gen, c) = 3 }
          /\ Killed = { c \in gen : NeighbourCount(gen, c) \notin {2, 3} }
          /\ Born \cap Killed = {}

\* a step in which one cell is born next to a cell that dies
C2_Witness ==
    /\ pc = "dropN"
    /\ Born # {} /\ Killed # {}
    /\ \E b \in Born : \E d \in Killed : d \in Neighbours(b)

(***************************************************************************)
(* C3.  The universe is bounded, with no wraparound: when the counting is  *)
(* finished a cell of the first or last row or column carries the count of *)
(* its alive neighbours inside the table and nothing else, so a corner     *)
(* never counts more than 3 and another edge cell never more than 5.  With *)
(* every cell alive the corner (0,0) counts exactly 3 and survives.        *)
(***************************************************************************)
OnEdge(c) == c[1] \in {0, SIZE - 1} \/ c[2] \in {0, SIZE - 1}

Corner(c) == c[1] \in {0, SIZE - 1} /\ c[2] \in {0, SIZE - 1}

C3_NoWraparound ==
    /\ pc \in {"dropLr", "births"} =>
          \A c \in Cells : OnEdge(c) =>
             /\ cls[c] \cap NClasses = { Clazz("n", NeighbourCount(gen, c)) }
             /\ \A i \in 0 .. 8 : Clazz("n", i) \in cls[c] =>
                    i <= (IF Corner(c) THEN 3 ELSE 5)
    /\ (pc = "births" /\ gen = Cells) => Clazz("n", 3) \in cls[<<0, 0>>]
    /\ (pc = "idle" /\ stepped /\ Settled /\ gen = Cells) =>
          <<0, 0>> \in AliveCells(cls)

\* every cell was alive, the step has run, and the corner (0,0) is alive
C3_Witness ==
    /\ pc = "idle" /\ stepped /\ Settled
    /\ gen = Cells
    /\ <<0, 0>> \in AliveCells(cls)
    /\ <<0, 1>> \notin AliveCells(cls)

(***************************************************************************)
(* The combinators.  `last` is the call just evaluated: the method bound   *)
(* to the name used (m, via), its receiver, the function and the extra     *)
(* arguments handed over, the invocations it made and what it yielded.     *)
(***************************************************************************)
\* the invocations of the function handed to the call
FnInvocations == { i \in 1 .. Len(last.inv) : last.inv[i].f = last.fn }

(***************************************************************************)
(* C4.  s.tap(fn, ...) and s.K(fn, ...) call fn, once, and return s        *)
(* itself, the same elements on the same stack, whatever fn returns: a     *)
(* string, another selection or nothing.                                   *)
(***************************************************************************)
C4_TapReturnsReceiver ==
    (last.m = "K") =>
        /\ ~last.threw
        /\ last.res = last.recv
        /\ cur = last.recv
        /\ Len(last.inv) = 1
        /\ FnInvocations = {1}

\* tap with an extra argument on a non-empty selection, where fn returns
\* another selection: the receiver comes back
C4_Witness ==
    /\ last.m = "K" /\ last.via = "tap"
    /\ last.fn = "oddsNext" /\ last.ex # << >>
    /\ last.recv.e # {}
    /\ last.inv[1].ret.k = "sel" /\ last.inv[1].ret # last.recv
    /\ last.res = last.recv

(***************************************************************************)
(* C5.  s.into(fn) and s.T(fn) pass the receiver s to fn and return the    *)
(* value fn returns, unchanged, a selection, a string or undefined; and    *)
(* applying into(g) to the value of s.into(f) yields g(f(s)).              *)
(***************************************************************************)
C5_IntoReturnsResult ==
    (last.m = "T") =>
        /\ ~last.threw
        /\ Len(last.inv) = 1
        /\ FnInvocations = {1}
        /\ last.inv[1].args[1] = last.recv
        /\ last.res = last.inv[1].ret
        /\ last.res = ApplyFn(last.fn, <<last.recv>> \o last.ex)
        /\ (last.ex = << >> /\ last.res.k = "sel") =>
              \A g \in FnNames :
                 T(T(last.recv, <<FnV(last.fn)>>).res, <<FnV(g)>>).res
                    = ApplyFn(g, <<ApplyFn(last.fn, <<last.recv>>)>>)

\* into on the value of an earlier filter: s.into(odds).into(oddsNext)
C5_Witness ==
    /\ last.m = "T" /\ last.via = "into" /\ last.ex = << >>
    /\ last.recv = ApplyFn("odds", <<SelV(Elem, << >>)>>)
    /\ last.fn = "oddsNext"
    /\ last.res = ApplyFn("oddsNext", <<ApplyFn("odds", <<SelV(Elem, << >>)>>)>>)
    /\ last.res # last.recv

(***************************************************************************)
(* C6.  select is atomic on the selection stack: s.select(fn) is a         *)
(* selection with exactly one stack entry more than s, whose previous      *)
(* object is s, however many entries fn pushed; s.select(fn).end() is s.   *)
(***************************************************************************)
C6_SelectEndIsReceiver ==
    /\ (last.m = "select") =>
          /\ ~last.threw
          /\ last.res.k = "sel"
          /\ last.res.st = <<last.recv.e>> \o last.recv.st
          /\ JqEnd(last.res) = last.recv
    /\ (last.m = "end" /\ last.via = "select") =>
          /\ last.res = last.recv
          /\ cur = last.recv

\* .end() after a select whose function filtered and then traversed, on a
\* receiver that has a stack of its own
C6_Witness ==
    /\ last.m = "end" /\ last.via = "select"
    /\ last.fn = "oddsNext"
    /\ Len(last.inv[1].ret.st) = 2
    /\ last.recv.st # << >> /\ last.recv.e # {}
    /\ cur = last.recv

(***************************************************************************)
(* C7.  s.when(fn) calls fn with s; when fn returns a truthy value the     *)
(* result is a selection of exactly the elements of s, and when fn returns *)
(* a falsy value the result is an empty selection.                         *)
(***************************************************************************)
C7_WhenAllOrNothing ==
    (last.m = "when") =>
        /\ FnInvocations = {1}
        /\ last.inv[1].args[1] = last.recv
        /\ Truthy(last.inv[1].ret) =>
              (~last.threw /\ last.res.k = "sel" /\ last.res.e = last.recv.e)
        /\ ~Truthy(last.inv[1].ret) =>
              (~last.threw /\ last.res.k = "sel" /\ last.res.e = {})

\* when with a function that returns nothing, on a non-empty selection
C7_FalsyCase ==
    /\ last.m = "when" /\ last.fn = "nothing"
    /\ last.recv.e # {}

(***************************************************************************)
(* C8.  s.ergo(fn) returns its receiver s, and fn is invoked iff s holds   *)
(* at least one element: on an empty selection fn is never called.  (With  *)
(* further arguments the call still never invokes fn on an empty s and     *)
(* returns s whenever it returns.)                                         *)
(***************************************************************************)
C8_ErgoOnlyIfNonEmpty ==
    (last.m = "ergo") =>
        /\ (FnInvocations # {}) <=> (last.recv.e # {})
        /\ (last.recv.e # {}) => (FnInvocations = {1} /\ Len(last.inv) = 1)
        /\ (last.ex = << >>) => (~last.threw /\ last.res = last.recv)
        /\ (last.recv.e # {}) => (~last.threw /\ last.res = last.recv)
        /\ ~last.threw => (last.res = last.recv /\ cur = last.recv)

\* ergo(fn) on an empty selection: fn was not called, the receiver is back
C8_Witness ==
    /\ last.m = "ergo" /\ last.ex = << >>
    /\ last.recv.e = {}
    /\ FnInvocations = {}
    /\ ~last.threw /\ last.res = last.recv

(***************************************************************************)
(* C9.  With tap/K, into/T, ergo, when and select, a call s.m(fn, a1, ..., *)
(* ak) that invokes fn invokes it with the selection first (s itself, for  *)
(* select a copy with the elements of s) and then exactly a1, ..., ak in   *)
(* their order; all but ergo invoke fn in every call.                      *)
(***************************************************************************)
C9_ExtrasFollowSelection ==
    (last.m \in {"T", "K", "ergo", "when", "select"}) =>
        /\ \A i \in FnInvocations :
              /\ Len(last.inv[i].args) = 1 + Len(last.ex)
              /\ last.inv[i].args[1].k = "sel"
              /\ last.inv[i].args[1].e = last.recv.e
              /\ last.inv[i].args[1] =
                    (IF last.m = "select" THEN JqCopy(last.recv) ELSE last.recv)
              /\ Tail(last.inv[i].args) = last.ex
        /\ (last.m # "ergo") => FnInvocations = {1}

\* select with two different extra arguments: fn received the copy, then
\* the string, then the function
C9_Witness ==
    /\ last.m = "select"
    /\ last.ex = << StrV("white"), FnV("unless") >>
    /\ last.recv.e # {}
    /\ last.inv[1].args = << JqCopy(last.recv), StrV("white"), FnV("unless") >>

C11_AliasesNeverRedefine ==
    /\ [][ (jqfn' # jqfn) =>
              /\ jqfn'["K"] = "K" /\ jqfn'["T"] = "T"
              /\ jqfn'["tap"] = (IF jqfn["tap"] = "undefined" THEN jqfn'["K"]
                                 ELSE jqfn["tap"])
              /\ jqfn'["into"] = (IF jqfn["into"] = "undefined" THEN jqfn'["T"]
                                  ELSE jqfn["into"]) ]_vars
    /\ [] ( /\ jqfn["tap"] \in {"undefined", "foreign", "K"}
            /\ jqfn["into"] \in {"undefined", "foreign", "T"}
            /\ (last.via = "tap") => (last.m = "K" /\ jqfn["tap"] = "K")
            /\ (last.via = "into") => (last.m = "T" /\ jqfn["into"] = "T") )

\* another library took tap before the plugin loaded: tap is still that
\* library's, into is T, and K has been called and returned its receiver
C11_Witness ==
    /\ jqfn["tap"] = "foreign" /\ jqfn["into"] = "T"
    /\ jqfn["K"] = "K" /\ jqfn["T"] = "T"
    /\ last.m = "K" /\ last.via = "K"
    /\ ~ last.threw /\ last.res = last.recv

(***************************************************************************)
(* C12.  A click on a cell flips that cell between alive and dead and      *)
(* leaves the alive state of every other cell as it was; two clicks in     *)
(* succession on one cell give back the state the first click found.       *)
(***************************************************************************)
C12_ClickFlipsOneCell ==
    (pc = "idle" /\ key = 0 /\ before # << >> /\ before[1].ev = "click") =>
        /\ before[1].n = 1 =>
              /\ (before[1].cell \in AliveCells(cls)) <=> (before[1].cell \notin before[1].alive)
              /\ \A d \in Cells \ {before[1].cell} :
                    (d \in AliveCells(cls)) <=> (d \in before[1].alive)
        /\ before[1].n = 2 =>
              /\ AliveCells(cls) = before[1].alive
              /\ cls = ToggleClass(ToggleClass(cls, ALIVE, {before[1].cell}),
                                   ALIVE, {before[1].cell})

\* a cell with alive neighbours has been clicked twice in succession, first
\* alive, then dead, then alive again
C12_Witness ==
    /\ pc = "idle" /\ key = 0 /\ before # << >>
    /\ before[1].ev = "click" /\ before[1].n = 2
    /\ before[1].cell = <<1, 1>>
    /\ before[1].alive = { <<0, 0>>, <<1, 1>> }
    /\ AliveCells(cls) = { <<0, 0>>, <<1, 1>> }

(***************************************************************************)
(* C13.  A blinker oscillates with period 2: from three horizontally       *)
(* adjacent alive cells in an otherwise dead grid one step yields the      *)
(* three vertically adjacent cells through the same centre, and the step   *)
(* after that gives back exactly the grid the first step began with.       *)
(***************************************************************************)
BlinkerH == { <<1, 0>>, <<1, 1>>, <<1, 2>> }

BlinkerV == { <<0, 1>>, <<1, 1>>, <<2, 1>> }

C14_NoSpontaneousBirth ==
    /\ (stepped /\ gen = {}) =>
          /\ AliveCells(cls) = {}
          /\ Born = {} /\ Killed = {}
          /\ Settled
    /\ (stepped /\ before # << >> /\ before[1].ev = "step" /\ before[1].alive = {}) =>
          (gen = {} /\ AliveCells(cls) = {})

\* two steps in a row on the all-dead grid
C14_Witness ==
    /\ pc = "idle" /\ stepped /\ key = RETURN
    /\ before # << >> /\ before[1].ev = "step" /\ before[1].alive = {}
    /\ gen = {}
    /\ AliveCells(cls) = {}

(***************************************************************************)
(* C15.  A step is a function of the set of alive cells alone.  life.js    *)
(* leaves no marker class behind when its handler returns; the standard    *)
(* implementation, whose resetCount leaves some markers on the cells,      *)
(* begins every step on the same alive set as life.js; and on both pages   *)
(* the generation after the step is Conway's next generation of that       *)
(* alive set, whatever clicks, steps and markers came before.              *)
(***************************************************************************)
\* the marker classes a page carries besides 'cell' and 'alive'
Markers(k) == UNION { k[c] \ {CELL, ALIVE} : c \in Cells }

\* marker classes of an earlier step that resetCount does not remove
Stale(k) == Markers(k) \ { Clazz("n", 0), Clazz("lr", 0) }

C16_StepIsTotal ==
    (pc = "idle" /\ stepped) =>
        /\ exc = ""
        /\ Settled => AliveCells(cls) = Conway(gen)

\* a step on the horizontal blinker has ended in an exception: the grid is
\* unchanged and the neighbour counts are still on the cells
C16_StepThrows ==
    /\ pc = "idle"
    /\ stepped
    /\ exc = "ReferenceError"
    /\ gen = BlinkerH
    /\ AliveCells(cls) = BlinkerH
    /\ Conway(gen) # gen
    /\ Markers(cls) # {}

(***************************************************************************)
(* C17: operations are synchronous.  When the Return handler has returned, *)
(* every birth and death of its step has been applied, and no handler      *)
(* starts on a grid on which class changes of an earlier step are pending. *)
(***************************************************************************)
C17_OperationsComplete ==
    /\ (pc = "idle" /\ stepped) => Settled
    /\ hasty = 0

\* two Returns in a row on the horizontal blinker, the second one taken
\* while the first one's transitions were pending: both steps began with
\* the same grid, and when everything has finished the grid is one
\* generation on, not two
C17_SecondStepOnStaleGrid ==
    /\ pc = "idle"
    /\ Settled
    /\ stepped
    /\ hasty = 1
    /\ before # << >>
    /\ before[1].ev = "step"
    /\ before[1].alive = BlinkerH
    /\ gen = BlinkerH
    /\ AliveCells(cls) = BlinkerV
    /\ Conway(Conway(BlinkerH)) = BlinkerH

(***************************************************************************)
(* C18: the shape of the grid never changes.  After construction and after *)
(* every click and step the table has SIZE rows of SIZE cells, every one   *)
(* of them still a cell, and between handlers a cell's classes say exactly *)
(* one of two things: dead (cell) or alive (cell alive).                   *)
(***************************************************************************)
C18_GridShapeInvariant ==
    /\ DOMAIN cls = Cells
    /\ AllCells(cls) = Cells
    /\ Cardinality(AllCells(cls)) = SIZE * SIZE
    /\ Cardinality({ Parent(c) : c \in AllCells(cls) }) = SIZE
    /\ \A r \in Index : Cardinality(Children(r) \cap AllCells(cls)) = SIZE
    /\ (pc = "idle") => \A c \in Cells : cls[c] \in { {CELL}, {CELL, ALIVE} }

\* clicks and two steps have happened, cells were born and cells died
C18_Witness ==
    /\ pc = "idle"
    /\ Settled
    /\ stepped
    /\ before # << >>
    /\ before[1].ev = "step"
    /\ Conway(gen) \ gen # {}
    /\ gen \ Conway(gen) # {}
    /\ AliveCells(cls) = Conway(gen)

(***************************************************************************)
(* C19: in the refactored page willDie selects the alive cells that do not *)
(* have two or three neighbours, so that when a step has ended and its     *)
(* transitions have finished, a cell that was alive before the step is     *)
(* alive if and only if it had two or three alive neighbours.              *)
(***************************************************************************)
C19_SurvivalOnTwoOrThree ==
    (pc = "idle" /\ stepped /\ Settled) =>
        \A c \in gen : (c \in AliveCells(cls)) <=> (NeighbourCount(gen, c) \in {2, 3})

\* a step on a grid with one alive cell has ended: the cell had no
\* neighbour and is still alive, and a call of willDie raises an exception
C19_LoneCellSurvives ==
    /\ pc = "idle"
    /\ stepped
    /\ Settled
    /\ Cardinality(gen) = 1
    /\ \A c \in gen : NeighbourCount(gen, c) = 0
    /\ AliveCells(cls) = gen
    /\ willDieFluent = "ReferenceError"

(***************************************************************************)
(* C20: the standard implementation is a faithful companion of life.js.    *)
(* Started with the same grid and given the same clicks and Returns, the   *)
(* two pages have the same alive cells and the same pending births and     *)
(* deaths whenever both handlers have returned, and they start every step  *)
(* with the same alive cells.                                              *)
(***************************************************************************)
C20_CompanionHasSameAliveSet ==
    /\ (pc = "idle" /\ pc2 = "idle") =>
          /\ AliveCells(cls) = AliveCells(cls2)
          /\ fxq = fxq2
    /\ (pc = "n0" /\ pc2 = "n0") => AliveCells(cls) = AliveCells(cls2)

\* after a step that changed the grid the two pages differ in their marker
\* classes (the standard page has stale ones) and agree in their alive cells
C20_Witness ==
    /\ pc = "idle"
    /\ pc2 = "idle"
    /\ stepped
    /\ Settled
    /\ Settled2
    /\ Conway(gen) \ gen # {}
    /\ gen \ Conway(gen) # {}
    /\ cls # cls2
    /\ AliveCells(cls) = AliveCells(cls2)

(***************************************************************************)
(* Horizontal, vertical and diagonal neighbours, on coordinates.           *)
(***************************************************************************)
HorizontalCount(alive, c) ==
    Cardinality({ d \in alive : d[1] = c[1] /\ d[2] - c[2] \in {-1, 1} })

VerticalCount(alive, c) ==
    Cardinality({ d \in alive : d[2] = c[2] /\ d[1] - c[1] \in {-1, 1} })

DiagonalCount(alive, c) ==
    Cardinality({ d \in alive : d[1] - c[1] \in {-1, 1} /\ d[2] - c[2] \in {-1, 1} })

\* the classes lr<i> / n<i> a cell carries
LrOf(k, c) == { x \in k[c] : x[1] = "lr" }

NOf(k, c) == { x \in k[c] : x[1] = "n" }

\* the index of the lr class of the cell in row r above or below c
\* (0 when the table has no such row)
LrIndex(k, r, c) ==
    IF r \notin Index THEN 0
    ELSE IF Clazz("lr", 2) \in k[<<r, c[2]>>] THEN 2
    ELSE IF Clazz("lr", 1) \in k[<<r, c[2]>>] THEN 1
    ELSE 0

\* the handler is past the two horizontal phases and the lr classes are still there
AfterHorizontal ==
    pc \in {"vertOne", "vertTwo", "diagOr1", "diagOr2", "diagAnd1", "diagAnd2", "dropLr"}

(***************************************************************************)
(* C23: the four diagonal phases add to every cell's neighbour count the   *)
(* number of its alive diagonal neighbours, which is the lr index of the   *)
(* cell above plus the lr index of the cell below (0 for a missing row):   *)
(* before them the count is the horizontal plus the vertical neighbours,   *)
(* after them it is that plus lr(above) + lr(below).                       *)
(***************************************************************************)
C23_DiagonalPhasesAddDiagonals ==
    /\ (pc = "diagOr1") =>
          \A c \in Cells :
             NOf(cls, c) = { Clazz("n", HorizontalCount(gen, c) + VerticalCount(gen, c)) }
    /\ (pc = "dropLr") =>
          \A c \in Cells :
             /\ LrIndex(cls, c[1] - 1, c) + LrIndex(cls, c[1] + 1, c) = DiagonalCount(gen, c)
             /\ NOf(cls, c) = { Clazz("n", HorizontalCount(gen, c) + VerticalCount(gen, c)
                                           + LrIndex(cls, c[1] - 1, c)
                                           + LrIndex(cls, c[1] + 1, c)) }

\* the four phases have run on a grid where the middle cell has lr1 above and
\* lr2 below (3 is added), a cell of the top row has lr2 below and no row above,
\* and a cell has lr1 above and below
C23_Witness ==
    /\ pc = "dropLr"
    /\ LrIndex(cls, 0, <<1, 1>>) = 1
    /\ LrIndex(cls, 2, <<1, 1>>) = 2
    /\ NOf(cls, <<1, 1>>) = { Clazz("n", HorizontalCount(gen, <<1, 1>>)
                                         + VerticalCount(gen, <<1, 1>>) + 3) }
    /\ \E c \in Cells : c[1] = 1 /\ LrIndex(cls, 0, c) = 1 /\ LrIndex(cls, 2, c) = 1
    /\ \E c \in Cells : c[1] = 0 /\ LrIndex(cls, 1, c) = 2

(***************************************************************************)
(* C24: after the two horizontal phases every cell carries exactly one of  *)
(* lr0, lr1, lr2, the one whose index is the number of alive cells next to *)
(* it in its row.  hasOnLeftOrRight selects the cells with exactly one     *)
(* such neighbour, hasOnLeftAndRight the cells with two, and no cell is in *)
(* both selections.                                                        *)
(***************************************************************************)
C24_HorizontalPhases ==
    /\ (pc \in {"lrOne", "lrTwo"}) =>
          /\ hasOnLeftOrRight(cls, ALIVE, AllCells(cls))
                = { c \in Cells : HorizontalCount(gen, c) = 1 }
          /\ hasOnLeftAndRight(cls, ALIVE, AllCells(cls))
                = { c \in Cells : HorizontalCount(gen, c) = 2 }
          /\ hasOnLeftOrRight(cls, ALIVE, AllCells(cls))
                \cap hasOnLeftAndRight(cls, ALIVE, AllCells(cls)) = {}
    /\ AfterHorizontal =>
          \A c \in Cells : LrOf(cls, c) = { Clazz("lr", HorizontalCount(gen, c)) }

\* the horizontal phases have run on a grid that has cells of all three kinds
C24_Witness ==
    /\ pc = "vertOne"
    /\ \E c \in Cells : Clazz("lr", 0) \in cls[c]
    /\ \E c \in Cells : Clazz("lr", 1) \in cls[c] /\ c \in gen
    /\ \E c \in Cells : Clazz("lr", 2) \in cls[c] /\ c \notin gen

(***************************************************************************)
(* C25: only the Return key advances the universe.  A keyup with keyCode   *)
(* 13 starts stepForwardOneGeneration once, on the alive cells of that     *)
(* moment, and the step gives their next generation; a keyup with another  *)
(* keyCode changes no class of any cell and requests no class change.      *)
(***************************************************************************)
C25_OnlyReturnAdvances ==
    /\ [][ (pc = "idle" /\ Settled) =>
              /\ (key' \notin {0, RETURN}) =>
                     cls' = cls /\ fxq' = fxq /\ pc' = "idle" /\ gen' = gen
              /\ (key' = RETURN) =>
                     cls' = cls /\ fxq' = fxq /\ pc' = "n0" /\ gen' = AliveCells(cls) ]_vars
    /\ [] ((pc # "idle") => key = RETURN)
    /\ [] ((pc = "idle" /\ stepped /\ Settled) => AliveCells(cls) = Conway(gen))

\* another key was released after a step that changed the grid: the grid is
\* still the generation that step gave
C25_Witness ==
    /\ pc = "idle"
    /\ key \notin {0, RETURN}
    /\ stepped
    /\ Settled
    /\ gen # {}
    /\ Conway(gen) # gen
    /\ AliveCells(cls) = Conway(gen)

C21_FnReceivesSelection ==
    (last.m \in {"T", "K"}) =>
        /\ Len(last.inv) = 1
        /\ last.inv[1].f = last.fn
        /\ last.inv[1].args = <<last.recv>> \o last.ex

\* tap(fn) without extra arguments on a non-empty selection, fn returning
\* its first parameter: fn was called with no argument at all and its
\* parameter was undefined; with one extra argument the parameter is the
\* extra argument
C21_FnGetsExtrasOnly ==
    /\ last.m = "K" /\ last.via = "tap"
    /\ last.fn = "self"
    /\ last.recv.e # {}
    /\ \/ last.ex = << >> /\ last.inv[1].args = << >> /\ last.inv[1].ret = Undefined
       \/ last.ex = << StrV("white") >> /\ last.inv[1].ret = StrV("white")
    /\ last.res = last.recv

================================================================
